---- MODULE Spec2Model ----
(***************************************************************************)
(* Model of exoquic-auth (src/src/index.js): the class                     *)
(* ExoquicSubscriptionAuthorizer with its async method authorize, the      *)
(* module-level singleton exoquicAuth with initSubscriptionAuthorizer and  *)
(* authorizeSubscription, and the error class ExoquicError.                *)
(*                                                                         *)
(* JavaScript values are tagged records, so that undefined, strings and    *)
(* numbers can sit in the same field.  A call of the async method          *)
(* authorize is a record of the sequence calls; its pc is the await it is  *)
(* suspended at ("fetch", "text") or "done" once its promise is settled.   *)
(* The remote service and the transport are the environment: they settle   *)
(* the fetch promise and the text promise of a call.                       *)
(***************************************************************************)
EXTENDS Integers, Sequences, FiniteSets, TLC

VARIABLES
    exoquicAuth,    \* the module variable `let exoquicAuth` (index.js:2)
    authorizer,     \* the caller's variable holding `new ExoquicSubscriptionAuthorizer(..)`
    now,            \* Date.now(), in milliseconds
    last,           \* the most recent synchronous call of the public surface and its completion
    lastInit,       \* history: the options of the most recent initSubscriptionAuthorizer call
    calls           \* the invocations of authorize whose promise the caller still holds

vars == <<exoquicAuth, authorizer, now, last, lastInit, calls>>

-----------------------------------------------------------------------------
(* Bounds of the model *)

MaxCalls == 1       \* promises of authorize held by callers at one time

-----------------------------------------------------------------------------
(* JavaScript values *)

Undefined == [t |-> "undefined"]
Null == [t |-> "null"]
Str(s) == [t |-> "string", s |-> s]
Num(n) == [t |-> "number", n |-> n]

\* String conversion of a template literal `${v}`.
ToStr(v) ==
    CASE v.t = "string" -> v.s
      [] v.t = "number" -> ToString(v.n)
      [] v.t = "null" -> "null"
      [] OTHER -> "undefined"

\* Completion records of a synchronous call: it returns a value or throws.
Normal(v) == [type |-> "normal", value |-> v]
Throw(e) == [type |-> "throw", value |-> e]

Promise == [t |-> "promise"]

\* A built-in error (TypeError, ReferenceError, Error): it has no statusCode.
BuiltinError(name, message) ==
    [name |-> name, message |-> message, statusCode |-> Undefined]

-----------------------------------------------------------------------------
(* Inputs *)

ApiKeys == {"test-api-key", "other-api-key"}

TestServerUrl == "https://test.exoquic.com"

\* The options object given to `new ExoquicSubscriptionAuthorizer(apiKey, options)`.
NewOptions ==
    {[serverUrl |-> Undefined], [serverUrl |-> Str(TestServerUrl)],
     [serverUrl |-> Str("https://prod.exoquic.com")]}

\* The options object given to initSubscriptionAuthorizer.
InitOptions ==
    { [apiKey |-> Str("key-1"), env |-> Undefined, serverUrl |-> Undefined],
      [apiKey |-> Str("key-2"), env |-> Str("prod"), serverUrl |-> Undefined],
      [apiKey |-> Str("key-3"), env |-> Str("prod"), serverUrl |-> Str(TestServerUrl)] }

\* The parameter objects given to authorize and to authorizeSubscription.
ParamObjects ==
    { [topic |-> Str("test-topic"), channel |-> Undefined, subscriptionId |-> Undefined,
       resetFrom |-> Undefined, expiresAt |-> Undefined],
      [topic |-> Str("test-topic"), channel |-> Undefined, subscriptionId |-> Str("test-sub-id"),
       resetFrom |-> Str("latest"), expiresAt |-> Undefined],
      [topic |-> Str("test-topic"), channel |-> Str("test-channel"), subscriptionId |-> Str("test-sub-id"),
       resetFrom |-> Str("latest"), expiresAt |-> Num(99)] }

\* Readings of the clock (milliseconds), in two different seconds.
Times == {1900, 2100}

\* What the remote service and the transport can answer.
Statuses == {200, 401, 500}
Bodies == {"eyJ.sub.token", "Invalid API key"}
FetchFailures == {"Network error", "fetch failed"}
TextFailures == {"body stream already read"}

-----------------------------------------------------------------------------
(* ExoquicError, index.js:120-125 *)

ExoquicError(message, statusCode) ==
    [name |-> "ExoquicError", message |-> message, statusCode |-> Num(statusCode)]

\* `error instanceof ExoquicError`
InstanceOfExoquicError(error) == error.name = "ExoquicError"

-----------------------------------------------------------------------------
(* JSON.stringify of the object literal of index.js:91-97 *)

Keys == <<"topic", "channel", "subscriptionId", "resetFrom", "expiresAt">>

Quote(s) == "\"" \o s \o "\""

\* The JSON text of a value.
JSONText(v) ==
    CASE v.t = "string" -> Quote(v.s)
      [] v.t = "number" -> ToString(v.n)
      [] OTHER -> "null"

\* The members of the JSON object text, in property order: a property whose
\* value is undefined is left out.
JSONStringify(obj) ==
    LET all == [i \in 1..Len(Keys) |-> [key |-> Quote(Keys[i]), value |-> obj[Keys[i]]]]
        kept == SelectSeq(all, LAMBDA m : m.value.t # "undefined")
    IN  [i \in 1..Len(kept) |-> [key |-> kept[i].key, text |-> JSONText(kept[i].value)]]

-----------------------------------------------------------------------------
(* class ExoquicSubscriptionAuthorizer, index.js:59-115 *)

\* constructor(apiKey, { serverUrl = `https://${defaultEnvironment}.exoquic.com` }).
\* The default is evaluated only when options.serverUrl is undefined, and no
\* binding named defaultEnvironment exists in the module, so evaluating it
\* throws a ReferenceError before any field is assigned.
ExoquicSubscriptionAuthorizer(apiKey, options) ==
    IF options.serverUrl = Undefined
    THEN Throw(BuiltinError("ReferenceError", "defaultEnvironment is not defined"))
    ELSE Normal([apiKey |-> apiKey, serverUrl |-> options.serverUrl])

\* Variant: the request goes to the path of an earlier API version.
FetchRequest_V1AuthorizePath(self, params) ==
    [url |-> ToStr(self.serverUrl) \o "/v1/authorize",
     method |-> "POST",
     headers |-> ("Content-Type" :> Str("application/json")) @@ ("x-api-key" :> self.apiKey),
     body |-> JSONStringify(params)]

\* The arguments of the fetch call of authorize (index.js:85-98).
FetchRequest(self, params) ==
    [url |-> ToStr(self.serverUrl) \o "/authorize-subscription",
     method |-> "POST",
     headers |-> ("Content-Type" :> Str("application/json")) @@ ("x-api-key" :> self.apiKey),
     body |-> JSONStringify(params)]

\* Variant: the catch block wraps every error, its own ExoquicError included.
Catch_WrapsEveryError(error) ==
    ExoquicError("Failed to authorize subscription: " \o error.message, 500)

\* Variant: the catch block takes the status code from the caught error.
Catch_StatusCodeOfCaughtError(error) ==
    IF InstanceOfExoquicError(error)
    THEN error
    ELSE [name |-> "ExoquicError",
          message |-> "Failed to authorize subscription: " \o error.message,
          statusCode |-> error.statusCode]

\* Variant: the catch block rethrows whatever it caught.
Catch_Rethrows(error) == error

\* The catch block of authorize (index.js:107-113): what the promise rejects with.
Catch(error) ==
    IF InstanceOfExoquicError(error)
    THEN error
    ELSE ExoquicError("Failed to authorize subscription: " \o error.message, 500)

\* Variant: the success body is taken for an object and its accessToken returned.
AfterText_ReturnsAccessTokenField(response, content) ==
    IF ~response.ok
    THEN Throw(ExoquicError("Failed to authorize subscription: " \o content, response.status))
    ELSE Normal(Undefined)

\* authorize once response.text() has resolved with content (index.js:100-105).
AfterText(response, content) ==
    IF ~response.ok
    THEN Throw(ExoquicError("Failed to authorize subscription: " \o content, response.status))
    ELSE Normal(Str(content))

\* The Response object fetch resolves with: ok is true for a status of 200-299.
Response(status) == [ok |-> (status >= 200 /\ status <= 299), status |-> status]

Fulfilled(value) == [state |-> "fulfilled", value |-> value]
Rejected(reason) == [state |-> "rejected", reason |-> reason]

\* authorize runs synchronously up to its first await: it builds the request
\* from this.serverUrl, this.apiKey and its parameters, calls fetch once and
\* suspends.  via, args, at and initSeen are history: the entry point, the
\* object the caller passed, the clock and lastInit at the time of the call.
authorize(self, params, via, args, initSeen) ==
    [via |-> via, args |-> args, at |-> now, initSeen |-> initSeen,
     self |-> self, params |-> params,
     request |-> FetchRequest(self, params), fetches |-> 1,
     pc |-> "fetch", response |-> Undefined, content |-> Undefined,
     caught |-> Undefined, result |-> Undefined]

\* Variant: a failed fetch is tried again.
OnFetchRejected_Retries(c, message) ==
    [c EXCEPT !.fetches = @ + 1]

\* The fetch promise rejected with an Error(message): control enters the catch block.
OnFetchRejected(c, message) ==
    LET error == BuiltinError("TypeError", message)
    IN  [c EXCEPT !.pc = "done", !.caught = error, !.result = Rejected(Catch(error))]

\* The fetch promise resolved: authorize awaits response.text().
OnFetchResolved(c, status) ==
    [c EXCEPT !.pc = "text", !.response = Response(status)]

\* response.text() resolved with the body text.
OnTextResolved(c, body) ==
    LET r == AfterText(c.response, body)
    IN  IF r.type = "throw"
        THEN [c EXCEPT !.pc = "done", !.content = Str(body), !.caught = r.value,
                       !.result = Rejected(Catch(r.value))]
        ELSE [c EXCEPT !.pc = "done", !.content = Str(body), !.result = Fulfilled(r.value)]

\* Variant: a body that cannot be read is reported with the status of the response.
OnTextRejected_UsesResponseStatus(c, message) ==
    LET error == BuiltinError("TypeError", message)
    IN  [c EXCEPT !.pc = "done", !.caught = error,
                  !.result = Rejected(ExoquicError(
                      "Failed to authorize subscription: " \o message, c.response.status))]

\* response.text() rejected with an Error(message).
OnTextRejected(c, message) ==
    LET error == BuiltinError("TypeError", message)
    IN  [c EXCEPT !.pc = "done", !.caught = error, !.result = Rejected(Catch(error))]

-----------------------------------------------------------------------------
(* The module-level functions, index.js:13-15 and index.js:52-54 *)

\* The parameter defaults of initSubscriptionAuthorizer:
\* env = "dev", serverUrl = `https://${env}.exoquic.com`.
InitServerUrl(options) ==
    LET env == IF options.env = Undefined THEN Str("dev") ELSE options.env
    IN  IF options.serverUrl = Undefined
        THEN Str("https://" \o ToStr(env) \o ".exoquic.com")
        ELSE options.serverUrl

\* Variant: the two minutes are added to the clock in milliseconds.
WithDefaults_MillisecondClock(args, clock) ==
    [args EXCEPT
        !.resetFrom = IF @ = Undefined THEN Str("earliest") ELSE @,
        !.expiresAt = IF @ = Undefined THEN Num(clock + 2 * 60) ELSE @]

\* The parameter defaults of authorizeSubscription, evaluated at each call:
\* resetFrom = 'earliest', expiresAt = Math.floor(Date.now() / 1000) + 2 * 60.
WithDefaults(args, clock) ==
    [args EXCEPT
        !.resetFrom = IF @ = Undefined THEN Str("earliest") ELSE @,
        !.expiresAt = IF @ = Undefined THEN Num((clock \div 1000) + 2 * 60) ELSE @]

-----------------------------------------------------------------------------
(* Actions *)

Init ==
    /\ exoquicAuth = Undefined
    /\ authorizer = Undefined
    /\ now = 1900
    /\ last = [op |-> "none"]
    /\ lastInit = Undefined
    /\ calls = <<>>

\* const authorizer = new ExoquicSubscriptionAuthorizer(apiKey, options)
New(apiKey, options) ==
    LET c == ExoquicSubscriptionAuthorizer(Str(apiKey), options)
    IN  /\ authorizer' = IF c.type = "normal" THEN c.value ELSE authorizer
        /\ last' = [op |-> "new", apiKey |-> apiKey, options |-> options, completion |-> c]
        /\ UNCHANGED <<exoquicAuth, now, lastInit, calls>>

\* authorizer.authorize(args)
Authorize(args) ==
    /\ authorizer # Undefined
    /\ Len(calls) < MaxCalls
    /\ calls' = Append(calls, authorize(authorizer, args, "authorize", args, Undefined))
    /\ last' = [op |-> "authorize", completion |-> Normal(Promise)]
    /\ UNCHANGED <<exoquicAuth, authorizer, now, lastInit>>

\* Variant: the singleton is created by the first call only.
InitSubscriptionAuthorizer_Once(options) ==
    LET c == ExoquicSubscriptionAuthorizer(options.apiKey, [serverUrl |-> InitServerUrl(options)])
    IN  /\ exoquicAuth' = IF exoquicAuth = Undefined /\ c.type = "normal" THEN c.value ELSE exoquicAuth
        /\ last' = [op |-> "initSubscriptionAuthorizer",
                    completion |-> IF c.type = "normal" THEN Normal(Undefined) ELSE c]
        /\ lastInit' = options
        /\ UNCHANGED <<authorizer, now, calls>>

\* initSubscriptionAuthorizer(options)
InitSubscriptionAuthorizer(options) ==
    LET c == ExoquicSubscriptionAuthorizer(options.apiKey, [serverUrl |-> InitServerUrl(options)])
    IN  /\ exoquicAuth' = IF c.type = "normal" THEN c.value ELSE exoquicAuth
        /\ last' = [op |-> "initSubscriptionAuthorizer",
                    completion |-> IF c.type = "normal" THEN Normal(Undefined) ELSE c]
        /\ lastInit' = options
        /\ UNCHANGED <<authorizer, now, calls>>

\* authorizeSubscription(args): with no instance stored, reading the property
\* authorize of undefined throws a TypeError out of the (non-async) function.
AuthorizeSubscription(args) ==
    LET params == WithDefaults(args, now)
    IN  IF exoquicAuth = Undefined
        THEN /\ last' = [op |-> "authorizeSubscription",
                         completion |-> Throw(BuiltinError("TypeError",
                             "Cannot read properties of undefined (reading 'authorize')"))]
             /\ UNCHANGED <<exoquicAuth, authorizer, now, lastInit, calls>>
        ELSE /\ Len(calls) < MaxCalls
             /\ calls' = Append(calls,
                    authorize(exoquicAuth, params, "authorizeSubscription", args, lastInit))
             /\ last' = [op |-> "authorizeSubscription", completion |-> Normal(Promise)]
             /\ UNCHANGED <<exoquicAuth, authorizer, now, lastInit>>

\* The transport fails before a response exists.
FetchReject(i, message) ==
    /\ calls[i].pc = "fetch"
    /\ calls' = [calls EXCEPT ![i] = OnFetchRejected(@, message)]
    /\ UNCHANGED <<exoquicAuth, authorizer, now, last, lastInit>>

\* The remote service answers with a status.
FetchResolve(i, status) ==
    /\ calls[i].pc = "fetch"
    /\ calls' = [calls EXCEPT ![i] = OnFetchResolved(@, status)]
    /\ UNCHANGED <<exoquicAuth, authorizer, now, last, lastInit>>

\* The body of the response has been read.
TextResolve(i, body) ==
    /\ calls[i].pc = "text"
    /\ calls' = [calls EXCEPT ![i] = OnTextResolved(@, body)]
    /\ UNCHANGED <<exoquicAuth, authorizer, now, last, lastInit>>

\* Reading the body of the response fails.
TextReject(i, message) ==
    /\ calls[i].pc = "text"
    /\ calls' = [calls EXCEPT ![i] = OnTextRejected(@, message)]
    /\ UNCHANGED <<exoquicAuth, authorizer, now, last, lastInit>>

\* The caller's await receives the settled promise and lets go of it.
Await(i) ==
    /\ calls[i].pc = "done"
    /\ calls' = [j \in 1..(Len(calls) - 1) |-> IF j < i THEN calls[j] ELSE calls[j + 1]]
    /\ UNCHANGED <<exoquicAuth, authorizer, now, last, lastInit>>

\* Time passes.
Tick ==
    /\ \E t \in Times : t > now /\ now' = t
    /\ UNCHANGED <<exoquicAuth, authorizer, last, lastInit, calls>>

\* The class used directly.
NextClass ==
    \/ \E apiKey \in ApiKeys, options \in NewOptions : New(apiKey, options)
    \/ \E args \in ParamObjects : Authorize(args)
    \/ \E i \in 1..Len(calls), status \in Statuses : FetchResolve(i, status)
    \/ \E i \in 1..Len(calls), message \in FetchFailures : FetchReject(i, message)
    \/ \E i \in 1..Len(calls), body \in Bodies : TextResolve(i, body)
    \/ \E i \in 1..Len(calls), message \in TextFailures : TextReject(i, message)
    \/ \E i \in 1..Len(calls) : Await(i)

SpecClass == Init /\ [][NextClass]_vars

\* The module-level functions.
Next ==
    \/ \E options \in InitOptions : InitSubscriptionAuthorizer(options)
    \/ \E args \in ParamObjects : AuthorizeSubscription(args)
    \/ Tick
    \/ \E i \in 1..Len(calls), status \in Statuses : FetchResolve(i, status)
    \/ \E i \in 1..Len(calls), message \in FetchFailures : FetchReject(i, message)
    \/ \E i \in 1..Len(calls), body \in Bodies : TextResolve(i, body)
    \/ \E i \in 1..Len(calls), message \in TextFailures : TextReject(i, message)
    \/ \E i \in 1..Len(calls) : Await(i)

Spec == Init /\ [][Next]_vars

-----------------------------------------------------------------------------
(* Vocabulary of the properties *)

Prefix == "Failed to authorize subscription: "

Done(c) == c.pc = "done"

\* The service answered, its answer was read, and it was not a success.
RemoteRejection(c) ==
    Done(c) /\ c.response # Undefined /\ ~c.response.ok /\ c.content # Undefined

\* The exchange broke: no response, or a response whose body could not be read.
TransportFailure(c) ==
    Done(c) /\ c.caught # Undefined /\ ~InstanceOfExoquicError(c.caught)

\* JSON.parse of a body: the inverse of JSONText on the values and keys in use.
JSONValues ==
    {Null} \cup {Num(n) : n \in 90..130}
           \cup {Str(s) : s \in {"test-topic", "test-channel", "test-sub-id", "latest", "earliest"}}

ParseText(text) ==
    IF \E v \in JSONValues : JSONText(v) = text
    THEN CHOOSE v \in JSONValues : JSONText(v) = text
    ELSE [t |-> "unparsed", text |-> text]

Unquote(text) == CHOOSE k \in {Keys[i] : i \in DOMAIN Keys} : Quote(k) = text

JSONParse(body) ==
    [k \in {Unquote(body[i].key) : i \in DOMAIN body} |->
        ParseText(body[CHOOSE i \in DOMAIN body : Unquote(body[i].key) = k].text)]

\* The parsed body has the fields of obj: a field obj leaves undefined is absent or null.
BodyMatches(body, obj) ==
    LET parsed == JSONParse(body)
    IN  \A i \in DOMAIN Keys :
            LET k == Keys[i]
            IN  IF obj[k] = Undefined
                THEN k \notin DOMAIN parsed \/ parsed[k] = Null
                ELSE k \in DOMAIN parsed /\ parsed[k] = obj[k]

\* The server URL an initSubscriptionAuthorizer call with these options asks for.
RequestedServerUrl(options) ==
    IF options.serverUrl # Undefined
    THEN options.serverUrl.s
    ELSE "https://" \o (IF options.env # Undefined THEN options.env.s ELSE "dev") \o ".exoquic.com"

-----------------------------------------------------------------------------
(* Properties *)

C3_TransportFailureIs500 ==
    \A i \in 1..Len(calls) :
        LET c == calls[i]
        IN  (Done(c) /\ c.response = Undefined)
                => /\ c.caught # Undefined
                   /\ c.result = Rejected([name |-> "ExoquicError",
                                           message |-> Prefix \o c.caught.message,
                                           statusCode |-> Num(500)])

C3_Witness ==
    \E i \in 1..Len(calls) :
        /\ calls[i].response = Undefined
        /\ calls[i].result = Rejected([name |-> "ExoquicError",
               message |-> "Failed to authorize subscription: Network error",
               statusCode |-> Num(500)])

C5_ConstructorDefaultsServerUrl ==
    last.op = "new"
        => /\ last.completion.type = "normal"
           /\ last.completion.value.apiKey = Str(last.apiKey)
           /\ last.completion.value.serverUrl =
                  IF last.options.serverUrl = Undefined
                  THEN Str("https://dev.exoquic.com")
                  ELSE last.options.serverUrl

\* C6: authorizeSubscription called without resetFrom and expiresAt forwards
\* resetFrom "earliest" and expiresAt = the unix time in whole seconds at that
\* call plus 120; what the caller supplies, and topic, channel and
\* subscriptionId, are forwarded unchanged.
C6_DefaultsAppliedPerCall ==
    \A i \in 1..Len(calls) :
        LET c == calls[i]
            expected == [c.args EXCEPT
                            !.resetFrom = IF @ = Undefined THEN Str("earliest") ELSE @,
                            !.expiresAt = IF @ = Undefined THEN Num((c.at \div 1000) + 120) ELSE @]
        IN  c.via = "authorizeSubscription"
                => /\ c.params = expected
                   /\ BodyMatches(c.request.body, expected)

C6_Witness ==
    \E i \in 1..Len(calls) :
        LET c == calls[i]
        IN  /\ c.via = "authorizeSubscription"
            /\ c.args.resetFrom = Undefined /\ c.args.expiresAt = Undefined
            /\ c.at = 2100
            /\ JSONParse(c.request.body)["expiresAt"] = Num(122)
            /\ JSONParse(c.request.body)["resetFrom"] = Str("earliest")

\* C7 as stated: authorizeSubscription always returns a promise and never
\* throws synchronously, also when called before initSubscriptionAuthorizer,
\* and every rejection is an ExoquicError with a numeric statusCode.
C7_NeverThrowsSynchronously ==
    /\ last.op = "authorizeSubscription" => last.completion = Normal(Promise)
    /\ \A i \in 1..Len(calls) :
           (calls[i].via = "authorizeSubscription" /\ Done(calls[i])
                /\ calls[i].result.state = "rejected")
               => /\ InstanceOfExoquicError(calls[i].result.reason)
                  /\ calls[i].result.reason.statusCode.t = "number"

\* C7 as amended: once initSubscriptionAuthorizer has been called,
\* authorizeSubscription returns a promise, and a remote rejection or a
\* transport failure rejects it with an ExoquicError with a numeric statusCode;
\* called before any initSubscriptionAuthorizer it throws a TypeError
\* synchronously.
C7_PromiseOnceInitialized ==
    /\ (last.op = "authorizeSubscription" /\ lastInit # Undefined)
           => last.completion = Normal(Promise)
    /\ (last.op = "authorizeSubscription" /\ lastInit = Undefined)
           => /\ last.completion.type = "throw"
              /\ last.completion.value.name = "TypeError"
    /\ \A i \in 1..Len(calls) :
           (calls[i].via = "authorizeSubscription" /\ Done(calls[i])
                /\ calls[i].result.state = "rejected")
               => /\ InstanceOfExoquicError(calls[i].result.reason)
                  /\ calls[i].result.reason.statusCode.t = "number"

C7_Witness ==
    /\ last.op = "authorizeSubscription"
    /\ \E i \in 1..Len(calls) :
           /\ calls[i].via = "authorizeSubscription"
           /\ TransportFailure(calls[i])
           /\ calls[i].result.state = "rejected"

\* C8: every invocation of authorize issues exactly one request: a non-success
\* response or a transport failure ends the call with its error, without a
\* second request.
C8_ExactlyOneRequest ==
    \A i \in 1..Len(calls) :
        LET c == calls[i]
        IN  /\ c.fetches = 1
            /\ c.caught # Undefined => (Done(c) /\ c.result.state = "rejected")
            /\ Done(c) => c.result # Undefined

C8_Witness ==
    \E i \in 1..Len(calls) :
        /\ TransportFailure(calls[i])
        /\ calls[i].response = Undefined
        /\ calls[i].fetches = 1

\* C9: the request of each authorizeSubscription call carries the apiKey and
\* the serverUrl of the most recent initSubscriptionAuthorizer call made before
\* it, both from that one call, also after a later initSubscriptionAuthorizer
\* call made while the request is in flight.
C9_LastInitWins ==
    \A i \in 1..Len(calls) :
        LET c == calls[i]
        IN  c.via = "authorizeSubscription"
                => /\ c.initSeen # Undefined
                   /\ c.request.headers["x-api-key"] = c.initSeen.apiKey
                   /\ c.request.url = RequestedServerUrl(c.initSeen) \o "/authorize-subscription"

C9_Witness ==
    \E i \in 1..Len(calls) :
        /\ calls[i].via = "authorizeSubscription"
        /\ calls[i].pc = "fetch"
        /\ calls[i].initSeen.apiKey = Str("key-2")
        /\ lastInit.apiKey = Str("key-3")
        /\ calls[i].request.url = "https://prod.exoquic.com/authorize-subscription"

\* C10 as stated: the statusCode tells a remote rejection from a transport
\* failure: no remote rejection has the statusCode of a transport failure.
C10_StatusCodeSeparatesCases ==
    \A i \in 1..Len(calls) :
        LET c == calls[i]
        IN  /\ TransportFailure(c) => c.result.reason.statusCode = Num(500)
            /\ RemoteRejection(c) => c.result.reason.statusCode # Num(500)

\* C10 as amended: a transport failure has statusCode 500 and a remote
\* rejection has the HTTP status of the response, so a statusCode other than
\* 500 is a remote rejection; a remote rejection with HTTP status 500 has the
\* statusCode of a transport failure.
C10_StatusCodeOtherThan500IsRemote ==
    \A i \in 1..Len(calls) :
        LET c == calls[i]
        IN  (Done(c) /\ c.result.state = "rejected")
                => /\ TransportFailure(c) => c.result.reason.statusCode = Num(500)
                   /\ RemoteRejection(c) => c.result.reason.statusCode = Num(c.response.status)
                   /\ c.result.reason.statusCode # Num(500) => RemoteRejection(c)
                   /\ TransportFailure(c) \/ RemoteRejection(c)

C10_Witness ==
    \E i \in 1..Len(calls) :
        /\ RemoteRejection(calls[i])
        /\ calls[i].response.status = 500
        /\ calls[i].result.reason.statusCode = Num(500)

====
